---- MODULE Spec2Model ----
(***************************************************************************)
(* A model of dropbox-sync: the engine that mirrors a Dropbox folder to a  *)
(* local directory by following the delta feed.  The repository holds      *)
(* three revisions of the engine:                                          *)
(*   src/unnamed/part_000  the queued multi-path engine   (Spec)           *)
(*   src/unnamed/part_001  the per-path-commit engine     (SpecPerPath)    *)
(*   src/index.js          the single-path engine         (SpecSingle)     *)
(* The commit of a batch on the local mirror is followed, one filesystem   *)
(* call at a time, by a specification of its own (SpecCommit).             *)
(* One engine instance is modelled.  Every asynchronous operation (remote  *)
(* poll, remote pull, readdir, filesystem operation, timer, the consumer's *)
(* onChange handler) is a request in flight whose completion is an action  *)
(* of its own; everything a callback does synchronously is one action.     *)
(***************************************************************************)
EXTENDS Integers, Sequences, FiniteSets, TLC

VARIABLES
  cursor,              \* this.cursor: Null or the token of the last page pulled
  paths,               \* Object.keys(this.paths): the registered watched paths
  watchingForChanges,  \* this.watchingForChanges: 0 (null) or the poll handle
  pullingChanges,      \* this.pullingChanges
  polls,               \* poll requests in flight, not aborted (handles)
  aborted,             \* aborted poll requests whose error callback is due
  pulls,               \* client.pullChanges requests in flight, with their closure
  delays,              \* pending delay() timers
  locals,              \* pending getLocalState (readdir) requests, by path
  commits,             \* commitChanges pipelines in progress
  queues,              \* the async.queue each path handler closes over
  cache,               \* cache[uid + ':' + root]: "this" instance, or "other"
                       \* (no entry, or an instance made after the eviction)
  disk,                \* the local mirror and the commit working on it
  ev                   \* what the last step did (history)

vars == <<cursor, paths, watchingForChanges, pullingChanges, polls, aborted,
          pulls, delays, locals, commits, queues, cache, disk, ev>>

----------------------------------------------------------------------------
(* Bounds of the model *)

MaxPageLen == 1
MaxPages == 2
\* asynchronous operations pending at once: polls, pulls, timers, readdirs,
\* commits, queued tasks and running onChange handlers
MaxInFlight == 2

----------------------------------------------------------------------------
(* Paths are strings, modelled as sequences of characters *)

Null == "null"

Lower(c) == IF c = "A" THEN "a" ELSE IF c = "B" THEN "b" ELSE c

normalizePath(path) ==
  LET slashed == IF path # <<>> /\ path[1] # "/" THEN <<"/">> \o path ELSE path
  IN  [i \in 1..Len(slashed) |-> Lower(slashed[i])]

RawPaths == { <<"a">>, <<"/", "A">>, <<"/", "a", "/", "b">> }

WatchPaths == { normalizePath(r) : r \in RawPaths }

Root == <<"r">>

toLocalPath(path) ==
  IF path # <<>> /\ path[1] = "/" THEN Root \o path ELSE Root \o <<"/">> \o path

Entries ==
  { [path |-> <<"/", "a", "/", "b", "/", "f">>, kind |-> "file"],
    [path |-> <<"/", "a", "/", "x">>, kind |-> "folder"] }

SeqsUpTo(S, n) == UNION { [1..k -> S] : k \in 0..n }

Cursors == {"c1", "c2"}

\* what client.pullChanges can answer: one page of the delta feed
Pages ==
  [cursor : Cursors, changes : SeqsUpTo(Entries, MaxPageLen),
   shouldPullAgain : BOOLEAN, blankSlate : BOOLEAN]

\* what readdir can answer for a watched path
LocalListings == { <<>>, << Root \o <<"/", "a", "/", "x">> >> }


NoPrev == [none |-> TRUE]

\* what the engine reads of a Dropbox.Http.PulledChanges once it is no longer
\* the cursor: its changes and its blankSlate flag
Batch(pulledChanges) ==
  [changes |-> pulledChanges.changes, blankSlate |-> pulledChanges.blankSlate]

----------------------------------------------------------------------------
(* The history of one step *)

NotCalled == [called |-> FALSE, list |-> <<>>]
Called(list) == [called |-> TRUE, list |-> list]

NoCommit == [none |-> TRUE]
NoBatch == [none |-> TRUE]

Ev(kind) ==
  [kind |-> kind,
   errs |-> [p \in WatchPaths |-> 0],         \* onError invocations, per path
   handed |-> [p \in WatchPaths |-> NotCalled],\* lists given to path handlers
   changed |-> {},                            \* paths whose onChange was invoked
   polls |-> 0,                               \* pollForChanges requests issued
   pulls |-> 0,                               \* pullChanges requests issued
   dropped |-> 0,                             \* calls that returned on a busy flag
   got |-> Null,                              \* the cursor a pull answered
   again |-> FALSE,                           \* the shouldPullAgain a pull answered
   blank |-> FALSE,                           \* the blankSlate a pull answered
   cycle |-> <<>>,                            \* the pages of the pull cycle so far
   commit |-> NoCommit,                       \* what commitChanges was given
   commitErr |-> FALSE,                       \* a commit called back with an error
   batch |-> NoBatch,                         \* the batch given to the path handlers
   arg |-> <<>>,                              \* the list given to onChange
   fs |-> FALSE,                              \* a filesystem mutation of a commit completed
   reset |-> FALSE,                           \* stopSync started resetDir
   threw |-> FALSE]                           \* the call ended by throwing

St ==
  [cursor |-> cursor, paths |-> paths, watchingForChanges |-> watchingForChanges,
   pullingChanges |-> pullingChanges, polls |-> polls, aborted |-> aborted,
   pulls |-> pulls, delays |-> delays, locals |-> locals, commits |-> commits,
   queues |-> queues, cache |-> cache, ev |-> ev]

Begin(kind) == [St EXCEPT !.ev = Ev(kind)]

Set(s) ==
  /\ cursor' = s.cursor
  /\ paths' = s.paths
  /\ watchingForChanges' = s.watchingForChanges
  /\ pullingChanges' = s.pullingChanges
  /\ polls' = s.polls
  /\ aborted' = s.aborted
  /\ pulls' = s.pulls
  /\ delays' = s.delays
  /\ locals' = s.locals
  /\ commits' = s.commits
  /\ queues' = s.queues
  /\ cache' = s.cache
  /\ disk' = disk
  /\ ev' = s.ev

RECURSIVE Sum(_, _)
Sum(f, S) ==
  IF S = {} THEN 0
  ELSE LET x == CHOOSE y \in S : TRUE IN f[x] + Sum(f, S \ {x})

InFlight(s) ==
  Cardinality(s.polls) + Cardinality(s.aborted) + Len(s.pulls) + s.delays
    + Cardinality(s.locals) + Len(s.commits)
    + Sum([p \in WatchPaths |->
            Len(s.queues[p].tasks) + (IF s.queues[p].running THEN 1 ELSE 0)],
          WatchPaths)

Bounded(s) == InFlight(s) <= MaxInFlight

RemoveAt(seq, i) == SubSeq(seq, 1, i - 1) \o SubSeq(seq, i + 1, Len(seq))

FreshPoll(s) ==
  CHOOSE i \in 1..(MaxInFlight + 2) :
    i \notin s.polls /\ i \notin s.aborted /\ i # s.watchingForChanges

----------------------------------------------------------------------------
(* The queued multi-path engine, src/unnamed/part_000 *)

\* (mutant) errAll that stops after the first registered path
errAll_FirstOnly(s, err) ==
  IF s.paths = {} THEN s
  ELSE LET first == CHOOSE p \in s.paths : TRUE
       IN  [s EXCEPT !.ev.errs[first] = @ + 1]

\* errAll: every registered path's handler is called with the error, and the
\* handler's first line hands it to that path's onError.
errAll(s, err) ==
  [s EXCEPT !.ev.errs = [p \in WatchPaths |->
                           IF p \in s.paths THEN @[p] + 1 ELSE @[p]]]

\* (mutant) the queued task keeps the remote paths
MapLocal_AsPulled(list) == list

MapLocal(list) == [i \in 1..Len(list) |-> toLocalPath(list[i])]

\* queue.push: the task is appended; the worker is started from setImmediate
\* (QueueProcess).
queuePush(s, p, task) ==
  [s EXCEPT !.queues[p].tasks = Append(@, task)]

\* a task: the paths given to onChange; remote tells a pulled batch from the
\* listing of getLocalState (history)
Task(s, list) == [paths |-> list, remote |-> s.ev.kind # "local"]

\* this.paths[path](null, changesMade), the handler sync() registers
pathHandler(s, p, changesMade) ==
  LET s1 == [s EXCEPT !.ev.handed[p] = Called(changesMade)]
  IN  IF Len(changesMade) > 0
        THEN queuePush(s1, p, Task(s, MapLocal(changesMade)))
        ELSE s1

\* this.paths[path](err): the handler's error branch
pathHandlerErr(s, p) == [s EXCEPT !.ev.errs[p] = @ + 1]

\* (mutant) pullChanges without the pullingChanges guard
pullChanges_NoGuard(s, prevChanges) ==
  [s EXCEPT !.pullingChanges = TRUE,
            !.pulls = Append(@, [prev |-> prevChanges, pages |-> s.ev.cycle]),
            !.ev.pulls = @ + 1]

pullChanges(s, prevChanges) ==
  IF s.pullingChanges
    THEN [s EXCEPT !.ev.dropped = @ + 1]
    ELSE [s EXCEPT !.pullingChanges = TRUE,
                   !.pulls = Append(@, [prev |-> prevChanges, pages |-> s.ev.cycle]),
                   !.ev.pulls = @ + 1]

\* (mutant) watchForChanges without the watchingForChanges guard
watchForChanges_NoGuard(s) ==
  IF s.cursor = Null
    THEN pullChanges([s EXCEPT !.ev.cycle = <<>>], NoPrev)
    ELSE LET h == FreshPoll(s)
         IN  [s EXCEPT !.watchingForChanges = h,
                       !.polls = @ \cup {h},
                       !.ev.polls = @ + 1]

watchForChanges(s) ==
  IF s.cursor = Null
    THEN pullChanges([s EXCEPT !.ev.cycle = <<>>], NoPrev)
    ELSE IF s.watchingForChanges # 0
      THEN [s EXCEPT !.ev.dropped = @ + 1]
      ELSE LET h == FreshPoll(s)
           IN  [s EXCEPT !.watchingForChanges = h,
                         !.polls = @ \cup {h},
                         !.ev.polls = @ + 1]

\* (mutant) the filter compares the whole path
HasPrefix_Equal(changePath, path) == changePath = path

\* change.path.slice(0, path.length) === path
HasPrefix(changePath, path) ==
  SubSeq(changePath, 1, IF Len(path) < Len(changePath) THEN Len(path) ELSE Len(changePath))
    = path

RECURSIVE FilterPaths(_, _)
FilterPaths(changes, path) ==
  IF changes = <<>> THEN <<>>
  ELSE (IF HasPrefix(Head(changes).path, path) THEN <<Head(changes).path>> ELSE <<>>)
         \o FilterPaths(Tail(changes), path)

RECURSIVE ForEachPath(_, _, _)
ForEachPath(s, ps, changes) ==
  IF ps = {} THEN s
  ELSE LET p == CHOOSE q \in ps : TRUE
       IN  ForEachPath(pathHandler(s, p, FilterPaths(changes, p)), ps \ {p}, changes)

\* the callback pullChanges gives commitChanges, on success
commitCallback(s, pulledChanges) ==
  IF s.paths = {} THEN s
  ELSE LET s1 == ForEachPath([s EXCEPT !.ev.batch = pulledChanges], s.paths,
                             pulledChanges.changes)
           triggered == s.paths # {}
       IN  IF ~triggered THEN watchForChanges(s1) ELSE s1

Running(s) == { p \in WatchPaths : s.queues[p].running }

\* q.process(): the worker is given the next task
queueProcess(s, p) ==
  [s EXCEPT !.queues[p] = [tasks |-> Tail(@.tasks), running |-> TRUE,
                           remote |-> Head(@.tasks).remote],
            !.ev.changed = {p},
            !.ev.arg = Head(s.queues[p].tasks).paths]

\* (mutant) a failed commit reaches only the paths with an entry in the batch
commitFailed_Scoped(s, pulledChanges) ==
  [s EXCEPT !.ev.commitErr = TRUE,
            !.ev.batch = pulledChanges,
            !.ev.errs = [p \in WatchPaths |->
                           IF p \in s.paths /\ FilterPaths(pulledChanges.changes, p) # <<>>
                             THEN @[p] + 1 ELSE @[p]]]

\* the callback pullChanges gives commitChanges, on error: errAll(err)
commitFailed(s, pulledChanges) ==
  errAll([s EXCEPT !.ev.commitErr = TRUE, !.ev.batch = pulledChanges], TRUE)

CommitRec(pulledChanges, stage) ==
  [batch |-> pulledChanges, stage |-> stage,
   pending |-> IF stage = "each" THEN 1..Len(pulledChanges.changes) ELSE {},
   failed |-> FALSE]

\* async.each(pulledChanges.changes, commitChange, next): every commitChange is
\* started at once; with no change the final callback is called at once.
eachChange(s, pulledChanges) ==
  IF pulledChanges.changes = <<>>
    THEN commitCallback(s, pulledChanges)
    ELSE [s EXCEPT !.commits = Append(@, CommitRec(pulledChanges, "each"))]

commitChanges(s, pulledChanges) ==
  LET s1 == [s EXCEPT !.ev.commit = pulledChanges]
  IN  IF pulledChanges.blankSlate
        THEN [s1 EXCEPT !.commits = Append(@, CommitRec(pulledChanges, "reset"))]
        ELSE eachChange(s1, pulledChanges)

\* (mutant) the new page replaces the pages pulled before it
Accumulate_Replace(prevChanges, pulledChanges) ==
  [prevChanges EXCEPT !.changes = pulledChanges.changes]

\* prevChanges.changes = prevChanges.changes.concat(pulledChanges.changes)
Accumulate(prevChanges, pulledChanges) ==
  [prevChanges EXCEPT !.changes = @ \o pulledChanges.changes]

\* (mutant) the recursive pull is not returned: the partial batch is committed
pullChangesCallback_CommitsPartial(s, req, err, pulledChanges) ==
  IF err THEN errAll(s, err)
  ELSE
    LET s1 == [s EXCEPT !.cursor = pulledChanges.cursor,
                        !.pullingChanges = FALSE,
                        !.ev.cycle = Append(req.pages, pulledChanges.changes)]
        prev == IF req.prev # NoPrev THEN Accumulate(req.prev, pulledChanges)
                ELSE NoPrev
        all == IF prev # NoPrev THEN prev ELSE Batch(pulledChanges)
        s2 == IF pulledChanges.shouldPullAgain THEN pullChanges(s1, all) ELSE s1
    IN  commitChanges(s2, all)

\* (mutant) the cursor is assigned before the error is looked at
pullChangesCallback_CursorFirst(s, req, err, pulledChanges) ==
  LET s1 == [s EXCEPT !.cursor = pulledChanges.cursor]
  IN  IF err THEN errAll(s1, err)
      ELSE
        LET s2 == [s1 EXCEPT !.pullingChanges = FALSE,
                             !.ev.cycle = Append(req.pages, pulledChanges.changes)]
            prev == IF req.prev # NoPrev THEN Accumulate(req.prev, pulledChanges)
                    ELSE NoPrev
            all == IF prev # NoPrev THEN prev ELSE Batch(pulledChanges)
        IN  IF pulledChanges.shouldPullAgain
              THEN pullChanges(s2, all)
              ELSE commitChanges(s2, all)

\* the callback pullChanges gives client.pullChanges
pullChangesCallback(s, req, err, pulledChanges) ==
  IF err THEN errAll(s, err)
  ELSE
    LET s1 == [s EXCEPT !.cursor = pulledChanges.cursor,
                        !.pullingChanges = FALSE,
                        !.ev.cycle = Append(req.pages, pulledChanges.changes)]
        prev == IF req.prev # NoPrev THEN Accumulate(req.prev, pulledChanges)
                ELSE NoPrev
        all == IF prev # NoPrev THEN prev ELSE Batch(pulledChanges)
    IN  IF pulledChanges.shouldPullAgain
          THEN pullChanges(s1, all)
          ELSE commitChanges(s1, all)

\* the callback watchForChanges gives client.pollForChanges
pollCallback(s, err, hasChanges) ==
  IF err THEN errAll(s, err)
  ELSE IF s.watchingForChanges = 0 THEN s
  ELSE LET s1 == [s EXCEPT !.watchingForChanges = 0]
       IN  IF ~hasChanges
             THEN [s1 EXCEPT !.delays = @ + 1]
             ELSE pullChanges([s1 EXCEPT !.ev.cycle = <<>>], NoPrev)

EmptyQueue == [tasks |-> <<>>, running |-> FALSE, remote |-> FALSE]

\* the mirror is not followed while the engine's scheduling is explored
NoDisk == [none |-> TRUE]

\* new DropboxSync(dropboxConfig, root) with an identity the cache does not
\* hold: the instance is cached and its fields are set
Constructed ==
  /\ cache = "this"
  /\ cursor = Null
  /\ paths = {}
  /\ watchingForChanges = 0
  /\ pullingChanges = FALSE
  /\ polls = {}
  /\ aborted = {}
  /\ pulls = <<>>
  /\ delays = 0
  /\ locals = {}
  /\ commits = <<>>
  /\ queues = [p \in WatchPaths |-> EmptyQueue]
  /\ ev = Ev("init")

Init ==
  /\ Constructed
  /\ disk = NoDisk

\* sync(path, onError, onChange).  A path is registered again only once the
\* queue and the readdir of its previous registration are finished, so that one
\* queue per path describes the handler closures alive.
Sync(raw) ==
  LET path == normalizePath(raw)
      s1 == [Begin("sync") EXCEPT !.paths = @ \cup {path},
                                   !.locals = @ \cup {path}]
      s2 == watchForChanges(s1)
  IN  /\ queues[path] = EmptyQueue
      /\ path \notin locals
      /\ Bounded(s2)
      /\ Set(s2)

\* readdir answers getLocalState: an error other than ENOENT, or a listing
\* (ENOENT is the empty listing)
LocalStateDone(p, err, listing) ==
  LET s1 == [Begin("local") EXCEPT !.locals = @ \ {p}]
      s2 == IF err THEN pathHandlerErr(s1, p) ELSE pathHandler(s1, p, listing)
  IN  /\ p \in locals
      /\ Bounded(s2)
      /\ Set(s2)

\* the queue's worker takes the next task: onChange(task.paths, cb)
QueueProcess(p) ==
  LET s1 == queueProcess(Begin("onChange"), p)
  IN  /\ ~queues[p].running
      /\ queues[p].tasks # <<>>
      /\ Set(s1)

\* the consumer calls cb: the worker ends, drain runs when the queue is empty,
\* and the queue processes its next task
HandlerDone(p) ==
  LET s1 == [Begin("handlerDone") EXCEPT
               !.queues[p].running = FALSE, !.queues[p].remote = FALSE]
      s2 == IF s1.queues[p].tasks = <<>> THEN watchForChanges(s1) ELSE s1
      s3 == IF s2.queues[p].tasks # <<>> THEN queueProcess(s2, p) ELSE s2
  IN  /\ queues[p].running
      /\ Bounded(s3)
      /\ Set(s3)

\* stopSync(path, callback), but for the calls that change nothing (a path
\* that is not registered, with paths left or no poll to abort).  abort() ends the request: its callback is never
\* called with a result; it either is not called at all or is called with the
\* transport error of the aborted request (errLater).
StopSync(raw, errLater) ==
  LET path == normalizePath(raw)
      s1 == [Begin("stopSync") EXCEPT !.paths = @ \ {path}]
      h == s1.watchingForChanges
      s2 == IF s1.paths = {} /\ h # 0
              THEN [s1 EXCEPT !.polls = @ \ {h},
                              !.aborted = IF h \in s1.polls /\ errLater
                                            THEN @ \cup {h} ELSE @,
                              !.watchingForChanges = 0,
                              !.cache = "other",
                              !.ev.reset = TRUE]
              ELSE s1
  IN  /\ path \in paths \/ (paths = {} /\ watchingForChanges # 0)
      /\ errLater => (paths \ {path} = {} /\ watchingForChanges \in polls)
      /\ Bounded(s2)
      /\ Set(s2)

\* DropboxSync.sync(options, localPath, syncPath, onError, onChange) for the
\* identity of this instance: the constructor returns the cached instance, or,
\* the cache holding none, makes an instance and caches it; sync is then
\* called on what the constructor returned.  When that is not this instance
\* the call registers the path on the other one and leaves this one alone.
StaticSync(raw) ==
  \/ /\ cache = "this"
     /\ Sync(raw)
  \/ /\ cache = "other"
     /\ Set(Begin("construct"))

PollOk(h, hasChanges) ==
  LET s1 == [Begin("pollOk") EXCEPT !.polls = @ \ {h}]
      s2 == pollCallback(s1, FALSE, hasChanges)
  IN  /\ h \in polls
      /\ Bounded(s2)
      /\ Set(s2)

PollErr(h) ==
  LET s1 == [Begin("pollErr") EXCEPT !.polls = @ \ {h}]
      s2 == pollCallback(s1, TRUE, FALSE)
  IN  /\ h \in polls
      /\ Set(s2)

AbortedPollErr(h) ==
  LET s1 == [Begin("abortedPollErr") EXCEPT !.aborted = @ \ {h}]
      s2 == pollCallback(s1, TRUE, FALSE)
  IN  /\ h \in aborted
      /\ Set(s2)

\* the delay() timer fires
DelayFire ==
  LET s1 == [Begin("delay") EXCEPT !.delays = @ - 1]
      s2 == watchForChanges(s1)
  IN  /\ delays > 0
      /\ Bounded(s2)
      /\ Set(s2)

PullOk(i, page) ==
  LET req == pulls[i]
      s1 == [Begin("pullOk") EXCEPT !.pulls = RemoveAt(@, i),
                                    !.ev.got = page.cursor,
                                    !.ev.again = page.shouldPullAgain,
                                    !.ev.blank = page.blankSlate]
      s2 == pullChangesCallback(s1, req, FALSE, page)
  IN  /\ i \in 1..Len(pulls)
      /\ page.shouldPullAgain => Len(req.pages) + 1 < MaxPages
      /\ Bounded(s2)
      /\ Set(s2)

PullErr(i) ==
  LET req == pulls[i]
      s1 == [Begin("pullErr") EXCEPT !.pulls = RemoveAt(@, i)]
      s2 == pullChangesCallback(s1, req, TRUE, [cursor |-> Null])
  IN  /\ i \in 1..Len(pulls)
      /\ Set(s2)

\* resetDir of a blankSlate batch ends: fs.remove then fs.mkdirs succeeded (ok),
\* or one of them failed
CommitReset(i, ok) ==
  LET rec == commits[i]
      s1 == [Begin("reset") EXCEPT !.commits = RemoveAt(@, i),
                                   !.ev.fs = ok]
      s2 == IF ok THEN eachChange(s1, rec.batch)
            ELSE commitFailed(s1, rec.batch)
  IN  /\ i \in 1..Len(commits)
      /\ rec.stage = "reset"
      /\ Bounded(s2)
      /\ Set(s2)

\* the commitChange of entry k of a batch ends.  async.each calls the final
\* callback at the first error, or when every commitChange has succeeded; the
\* commitChange calls still running after an error run to their end.
CommitChange(i, k, ok) ==
  LET rec == commits[i]
      left == rec.pending \ {k}
      failed == rec.failed \/ ~ok
      s1 == [Begin("change") EXCEPT
               !.commits = IF left = {} THEN RemoveAt(@, i)
                           ELSE [@ EXCEPT ![i].pending = left, ![i].failed = failed],
               !.ev.fs = ok]
      s2 == IF ~ok /\ ~rec.failed
              THEN commitFailed(s1, rec.batch)
            ELSE IF left = {} /\ ~failed THEN commitCallback(s1, rec.batch)
            ELSE s1
  IN  /\ i \in 1..Len(commits)
      /\ rec.stage = "each"
      /\ k \in rec.pending
      /\ Bounded(s2)
      /\ Set(s2)

Next ==
  \/ \E raw \in RawPaths : Sync(raw)
  \/ \E raw \in RawPaths : StaticSync(raw)
  \/ \E raw \in RawPaths, errLater \in BOOLEAN : StopSync(raw, errLater)
  \/ \E p \in WatchPaths, listing \in LocalListings : LocalStateDone(p, FALSE, listing)
  \/ \E p \in WatchPaths : LocalStateDone(p, TRUE, <<>>)
  \/ \E p \in WatchPaths : QueueProcess(p)
  \/ \E p \in WatchPaths : HandlerDone(p)
  \/ \E h \in polls, hasChanges \in BOOLEAN : PollOk(h, hasChanges)
  \/ \E h \in polls : PollErr(h)
  \/ \E h \in aborted : AbortedPollErr(h)
  \/ DelayFire
  \/ \E i \in 1..Len(pulls), page \in Pages : PullOk(i, page)
  \/ \E i \in 1..Len(pulls) : PullErr(i)
  \/ \E i \in 1..Len(commits), ok \in BOOLEAN : CommitReset(i, ok)
  \/ \E i \in 1..Len(commits), ok \in BOOLEAN :
       \E k \in commits[i].pending : CommitChange(i, k, ok)

Spec == Init /\ [][Next]_vars

----------------------------------------------------------------------------
(* Claims about the queued multi-path engine *)

PA == <<"/", "a">>
PAB == <<"/", "a", "/", "b">>
EF == <<"/", "a", "/", "b", "/", "f">>
EX == <<"/", "a", "/", "x">>

\* C1: while the onChange handler of a path is running (invoked for a pulled
\* batch, its callback not yet called), the engine starts no filesystem
\* mutation (resetDir or commitChange) for a batch pulled later.
C1_NoMutationWhileHandlerRuns ==
  ~ /\ ev.kind = "pullOk"
    /\ ev.commit # NoCommit
    /\ (ev.commit.blankSlate \/ ev.commit.changes # <<>>)
    /\ \E p \in WatchPaths : queues[p].running /\ queues[p].remote

\* the steps that call watchForChanges: sync, the queue's drain, the delay timer
WatchCallers == {"sync", "handlerDone", "delay"}

\* C3: at most one poll request is outstanding, and a watchForChanges call made
\* while a poll is outstanding issues no remote request.
C3_AtMostOnePoll ==
  /\ Cardinality(polls) <= 1
  /\ (ev.kind \in WatchCallers /\ Cardinality(polls) - ev.polls >= 1)
       => (ev.polls = 0 /\ ev.pulls = 0)

C3_Witness ==
  /\ ev.kind \in WatchCallers
  /\ ev.dropped = 1
  /\ cursor # Null
  /\ Cardinality(polls) = 1

\* C4: at most one client.pullChanges request is in flight, and while
\* pullingChanges is set no step other than the completion of the pull in
\* flight issues a pull or changes the flag.
C4_AtMostOnePull ==
  /\ [](Len(pulls) <= 1)
  /\ [][(pullingChanges /\ ev'.kind \notin {"pullOk", "pullErr"})
          => (pulls' = pulls /\ pullingChanges' /\ cursor' = cursor)]_vars

C4_Witness ==
  /\ ev.kind \in WatchCallers
  /\ ev.dropped = 1
  /\ cursor = Null
  /\ pullingChanges
  /\ Len(pulls) = 1

\* C5: commitChanges is called, and path handlers are given changes, only by
\* the completion of a pull whose page has shouldPullAgain = false; a page
\* with shouldPullAgain = true commits nothing and reaches no handler.
C5_OnlyCompleteBatches ==
  /\ ev.commit # NoCommit => (ev.kind = "pullOk" /\ ~ev.again)
  /\ (ev.kind = "pullOk" /\ ev.again)
       => /\ ev.commit = NoCommit
          /\ ev.batch = NoBatch
          /\ \A p \in WatchPaths : ~ev.handed[p].called

C5_Witness ==
  /\ ev.kind = "pullOk"
  /\ ~ev.again
  /\ Len(ev.cycle) = 2
  /\ ev.commit # NoCommit

RECURSIVE Flatten(_)
Flatten(pages) ==
  IF pages = <<>> THEN <<>> ELSE Head(pages) \o Flatten(Tail(pages))

\* C6: the entry list given to commitChanges is the concatenation of the pages
\* of the pull cycle, in page order.
C6_BatchIsConcatenation ==
  ev.commit # NoCommit => ev.commit.changes = Flatten(ev.cycle)

C6_Witness ==
  /\ ev.commit # NoCommit
  /\ Len(ev.cycle) = 2
  /\ ev.cycle[1] # <<>>
  /\ ev.cycle[2] # <<>>
  /\ ev.cycle[1] # ev.cycle[2]

\* C7: the cursor changes only when a pull completes successfully, to the
\* cursor that pull answered; a failed pull and every other step leave it.
C7_CursorOnlyFromPull ==
  /\ [](ev.kind = "pullOk" => cursor = ev.got)
  /\ [][cursor' # cursor => ev'.kind = "pullOk"]_vars

C7_Witness ==
  /\ ev.kind = "pullErr"
  /\ cursor # Null

TransportErrors == {"pollErr", "pullErr", "abortedPollErr"}

\* C8: a poll or pull that completes with an error invokes the onError of
\* every registered path exactly once and no onChange.
C8_ErrorBroadcast ==
  ev.kind \in TransportErrors =>
    /\ \A p \in WatchPaths : ev.errs[p] = IF p \in paths THEN 1 ELSE 0
    /\ ev.changed = {}
    /\ \A p \in WatchPaths : ~ev.handed[p].called

C8_Witness ==
  /\ ev.kind = "pullErr"
  /\ paths = {PA, PAB}
  /\ ev.errs[PA] = 1
  /\ ev.errs[PAB] = 1

\* w is a string prefix of x
IsStringPrefix(w, x) ==
  /\ Len(w) <= Len(x)
  /\ \A i \in 1..Len(w) : x[i] = w[i]

EntriesUnder(changes, w) ==
  LET under(c) == IsStringPrefix(w, c.path)
      kept == SelectSeq(changes, under)
  IN  [i \in 1..Len(kept) |-> kept[i].path]

C10_PrefixFilter ==
  (ev.batch # NoBatch /\ ~ev.commitErr) =>
    \A p \in WatchPaths :
      ev.handed[p] = IF p \in paths
                       THEN Called(EntriesUnder(ev.batch.changes, p))
                       ELSE NotCalled

C10_Witness ==
  /\ ev.batch # NoBatch
  /\ ~ev.commitErr
  /\ paths = {PA, PAB}
  /\ ev.batch.changes = <<[path |-> EF, kind |-> "file"]>>
  /\ ev.handed[PA] = Called(<<EF>>)
  /\ ev.handed[PAB] = Called(<<EF>>)

\* a task was pushed on the queue of p by the step
Pushed(p) == Len(queues'[p].tasks) > Len(queues[p].tasks)

\* the step ended, with success, the last filesystem call of a commit of the
\* batch it dispatched, and no call of that commit had failed
CompletedCommit ==
  /\ ev'.kind = "change"
  /\ ev'.fs
  /\ ev'.batch # NoBatch
  /\ ~ev'.commitErr
  /\ \E i \in 1..Len(commits) :
       /\ commits[i].batch = ev'.batch
       /\ commits[i].stage = "each"
       /\ Cardinality(commits[i].pending) = 1
       /\ ~commits[i].failed
       /\ commits' = RemoveAt(commits, i)

\* C12: a task for a pulled batch is queued for a path only by the step that
\* ends the last commitChange of the batch, every one having succeeded; the
\* task holds toLocalPath of each entry under the path, in batch order;
\* onChange is invoked with the task at the head of the path's queue; a step
\* in which a commit fails queues nothing.
C12_OnChangeAfterCommit ==
  [][/\ \A p \in WatchPaths :
          (Pushed(p) /\ ev'.kind # "local") =>
            /\ CompletedCommit
            /\ queues'[p].tasks =
                 Append(queues[p].tasks,
                        [paths |-> LET under == EntriesUnder(ev'.batch.changes, p)
                                   IN  [k \in 1..Len(under) |-> toLocalPath(under[k])],
                         remote |-> TRUE])
     /\ \A p \in ev'.changed :
          /\ queues[p].tasks # <<>>
          /\ ev'.arg = Head(queues[p].tasks).paths
     /\ ev'.commitErr => \A p \in WatchPaths : ~Pushed(p)]_vars

C12_Witness ==
  /\ ev.changed = {PA}
  /\ queues[PA].running
  /\ queues[PA].remote
  /\ ev.arg = <<toLocalPath(EF), toLocalPath(EX)>>

\* the instance has a registered path, a poll or a pull outstanding, or a
\* commit in progress
Live == paths # {} \/ polls # {} \/ pulls # <<>> \/ commits # <<>>

\* C15: when a call for the identity of this instance is given another
\* instance (ev.kind = "construct"), this instance is not live; a sync call
\* served by the cached instance leaves its cursor and its registered paths
\* in place; the second of two consecutive sync calls issues no request.
C15_OneLiveInstance ==
  /\ [](ev.kind = "construct" => ~Live)
  /\ [][ev'.kind = "sync" => (cursor' = cursor /\ paths \subseteq paths')]_vars
  /\ [][(ev.kind = "sync" /\ ev'.kind = "sync") => ev'.polls + ev'.pulls = 0]_vars

\* C16: the stopSync that removes the last registered path aborts the poll,
\* leaves no poll outstanding, evicts the instance from the cache and starts
\* the wipe of the root; with no path registered no step but sync issues a
\* poll or a pull.
C16_StopSyncTeardown ==
  /\ [][(paths # {} /\ paths' = {})
          => /\ ev'.kind = "stopSync"
             /\ ev'.reset
             /\ cache' = "other"
             /\ polls' = {}
             /\ watchingForChanges' = 0]_vars
  /\ [][(paths = {} /\ ev'.kind # "sync") => ev'.polls + ev'.pulls = 0]_vars

\* C17: while the timer set by a poll that reported no change is pending, the
\* engine sends no request of its own; the request it sends next is a poll,
\* sent by the firing of the timer.  (A request sent by a sync call is not
\* counted.)
C17_RepollAfterDelay ==
  [][(delays > 0 /\ ev'.kind # "sync" /\ ev'.polls + ev'.pulls > 0)
       => (ev'.kind = "delay" /\ ev'.pulls = 0 /\ ev'.polls = 1)]_vars

\* C18: when a batch is dispatched with paths registered and no entry under
\* any of them, the engine is not left idle: a poll or a pull is outstanding,
\* or a timer, a readdir, a commit or a handler is still to complete.
C18_RearmWhenNoMatch ==
  (/\ ev.batch # NoBatch
   /\ ~ev.commitErr
   /\ paths # {}
   /\ \A p \in paths : ev.handed[p] = Called(<<>>))
    => \/ polls # {}
       \/ pulls # <<>>
       \/ delays > 0
       \/ locals # {}
       \/ commits # <<>>
       \/ \E p \in WatchPaths : queues[p].running \/ queues[p].tasks # <<>>

\* C23: when the page that ends a pull cycle reports blankSlate, the batch
\* given to commitChanges is a blankSlate batch, whatever the first page of the
\* cycle reported; the root is then reset before the entries (C11).
C23_BlankSlateOfAnyPage ==
  (ev.kind = "pullOk" /\ ev.commit # NoCommit /\ ev.blank)
    => ev.commit.blankSlate

\* C25: a poll or pull callback that fires while no path is registered (the
\* last one was removed by stopSync) leaves cursor, watchingForChanges and
\* pullingChanges as they are, starts no commit, calls no onError and issues no
\* request.
C25_StaleCallbackInert ==
  [][(/\ paths = {}
      /\ ev'.kind \in {"pollOk", "pollErr", "abortedPollErr", "pullOk", "pullErr"})
       => /\ cursor' = cursor
          /\ watchingForChanges' = watchingForChanges
          /\ pullingChanges' = pullingChanges
          /\ commits' = commits
          /\ \A p \in WatchPaths : ev'.errs[p] = 0
          /\ ev'.polls + ev'.pulls = 0]_vars

\* a poll has answered an error and its handle is still held; a pull has
\* answered an error and the flag is still set
PollErrored == watchingForChanges # 0 /\ watchingForChanges \notin polls
PullErrored == pullingChanges /\ pulls = <<>>

\* C26: once a poll or a pull has failed, no step of the engine other than a
\* sync call issues a request, and a sync call on this instance does issue one.
C26_RetryOnlyOnSync ==
  [][(PollErrored \/ PullErrored)
       => IF ev'.kind = "sync" THEN ev'.polls + ev'.pulls > 0
          ELSE IF ev'.kind = "construct" THEN TRUE
          ELSE ev'.polls + ev'.pulls = 0]_vars

\* C28: the sync call that follows the stopSync which removed the last path
\* and reset the root finds a null cursor and sends a full pull, not a poll.
C28_NullCursorAfterTeardown ==
  [][(ev.kind = "stopSync" /\ ev.reset /\ ev'.kind = "sync")
       => (cursor = Null /\ ev'.pulls = 1 /\ ev'.polls = 0)]_vars

----------------------------------------------------------------------------
(* The per-path-commit engine, src/unnamed/part_001.  Its watchForChanges,  *)
(* the first lines of its pullChanges and its errAll are, line for line,    *)
(* those of the queued engine; what differs is below.                       *)

normalizePath001(path) ==
  IF path # <<>> /\ path[1] # "/" THEN <<"/">> \o path ELSE path

RawPaths001 == { <<"a">>, <<"/", "a", "/", "b">> }

ChangePaths(changes) == [i \in 1..Len(changes) |-> changes[i].path]

\* the handler sync() registers: it is also the callback of the path's commit
pathHandler001(s, p, err, changesMade) ==
  IF err THEN [s EXCEPT !.ev.errs[p] = @ + 1]
  ELSE
    LET s1 == IF Len(changesMade.changes) > 0
                THEN [s EXCEPT !.ev.changed = @ \cup {p},
                               !.ev.arg = MapLocal(ChangePaths(changesMade.changes))]
                ELSE s
    IN  watchForChanges(s1)

CommitRec001(path, pulledChanges, stage) ==
  [path |-> path, batch |-> pulledChanges, stage |-> stage,
   pending |-> IF stage = "each" THEN 1..Len(pulledChanges.changes) ELSE {},
   failed |-> FALSE]

commitChanges001(s, path, pulledChanges) ==
  [s EXCEPT !.commits =
     Append(@, CommitRec001(path, pulledChanges,
                            IF pulledChanges.blankSlate THEN "reset" ELSE "each"))]

RECURSIVE FilterChanges(_, _)
FilterChanges(changes, path) ==
  IF changes = <<>> THEN <<>>
  ELSE (IF HasPrefix(Head(changes).path, path) THEN <<Head(changes)>> ELSE <<>>)
         \o FilterChanges(Tail(changes), path)

\* Object.keys(self.paths).forEach(...): a commit per path that has changes
RECURSIVE ForEachPath001(_, _, _)
ForEachPath001(s, ps, pulledChanges) ==
  IF ps = {} THEN s
  ELSE LET p == CHOOSE q \in ps : TRUE
           filtered == FilterChanges(pulledChanges.changes, p)
           s1 == IF Len(filtered) > 0
                   THEN commitChanges001(s, p, [pulledChanges EXCEPT !.changes = filtered])
                   ELSE s
       IN  ForEachPath001(s1, ps \ {p}, pulledChanges)

ChangedPaths(s, pulledChanges) ==
  { p \in s.paths : Len(FilterChanges(pulledChanges.changes, p)) > 0 }

pullChangesCallback001(s, req, err, pulledChanges) ==
  IF err THEN errAll(s, err)
  ELSE
    LET s1 == [s EXCEPT !.cursor = pulledChanges.cursor,
                        !.pullingChanges = FALSE,
                        !.ev.cycle = Append(req.pages, pulledChanges.changes)]
        prev == IF req.prev # NoPrev THEN Accumulate(req.prev, pulledChanges)
                ELSE NoPrev
        all == IF prev # NoPrev THEN prev ELSE Batch(pulledChanges)
    IN  IF pulledChanges.shouldPullAgain
          THEN pullChanges(s1, all)
          ELSE LET s2 == ForEachPath001([s1 EXCEPT !.ev.batch = all], s1.paths, all)
               IN  IF ChangedPaths(s1, all) = {} THEN watchForChanges(s2) ELSE s2

Sync001(raw) ==
  LET path == normalizePath001(raw)
      s1 == [Begin("sync") EXCEPT !.paths = @ \cup {path}]
      s2 == watchForChanges(s1)
  IN  /\ Bounded(s2)
      /\ Set(s2)

\* stopSync(path, callback): with no path left it calls abort() on
\* this.watchingForChanges, which throws when no poll handle is held; otherwise
\* it goes on to resetDir(path, callback).
StopSync001(raw, errLater) ==
  LET path == normalizePath001(raw)
      s1 == [Begin("stopSync") EXCEPT !.paths = @ \ {path}]
      h == s1.watchingForChanges
      s2 == IF s1.paths # {} THEN [s1 EXCEPT !.ev.reset = TRUE]
            ELSE IF h = 0 THEN [s1 EXCEPT !.ev.threw = TRUE]
            ELSE [s1 EXCEPT !.polls = @ \ {h},
                            !.aborted = IF h \in s1.polls /\ errLater
                                          THEN @ \cup {h} ELSE @,
                            !.watchingForChanges = 0,
                            !.ev.reset = TRUE]
  IN  /\ errLater => (paths \ {path} = {} /\ watchingForChanges \in polls)
      /\ Bounded(s2)
      /\ Set(s2)

PullOk001(i, page) ==
  LET req == pulls[i]
      s1 == [Begin("pullOk") EXCEPT !.pulls = RemoveAt(@, i),
                                    !.ev.got = page.cursor,
                                    !.ev.again = page.shouldPullAgain]
      s2 == pullChangesCallback001(s1, req, FALSE, page)
  IN  /\ i \in 1..Len(pulls)
      /\ page.shouldPullAgain => Len(req.pages) + 1 < MaxPages
      /\ Bounded(s2)
      /\ Set(s2)

PullErr001(i) ==
  LET req == pulls[i]
      s1 == [Begin("pullErr") EXCEPT !.pulls = RemoveAt(@, i)]
      s2 == pullChangesCallback001(s1, req, TRUE, [cursor |-> Null])
  IN  /\ i \in 1..Len(pulls)
      /\ Set(s2)

\* resetDir(path) of a path's commit ends; the commit's callback is the handler
\* the path had when the batch was dispatched
CommitReset001(i, ok) ==
  LET rec == commits[i]
      s1 == [Begin("reset") EXCEPT
               !.commits = IF ok THEN [@ EXCEPT ![i].stage = "each",
                                                ![i].pending = 1..Len(rec.batch.changes)]
                           ELSE RemoveAt(@, i),
               !.ev.fs = ok]
      s2 == IF ok THEN s1
            ELSE pathHandler001([s1 EXCEPT !.ev.commitErr = TRUE], rec.path, TRUE, rec.batch)
  IN  /\ i \in 1..Len(commits)
      /\ rec.stage = "reset"
      /\ Bounded(s2)
      /\ Set(s2)

CommitChange001(i, k, ok) ==
  LET rec == commits[i]
      left == rec.pending \ {k}
      failed == rec.failed \/ ~ok
      s1 == [Begin("change") EXCEPT
               !.commits = IF left = {} THEN RemoveAt(@, i)
                           ELSE [@ EXCEPT ![i].pending = left, ![i].failed = failed],
               !.ev.fs = ok]
      s2 == IF ~ok /\ ~rec.failed
              THEN pathHandler001([s1 EXCEPT !.ev.commitErr = TRUE], rec.path, TRUE, rec.batch)
            ELSE IF left = {} /\ ~failed
              THEN pathHandler001(s1, rec.path, FALSE, rec.batch)
            ELSE s1
  IN  /\ i \in 1..Len(commits)
      /\ rec.stage = "each"
      /\ k \in rec.pending
      /\ Bounded(s2)
      /\ Set(s2)

Next001 ==
  \/ \E raw \in RawPaths001 : Sync001(raw)
  \/ \E raw \in RawPaths001, errLater \in BOOLEAN : StopSync001(raw, errLater)
  \/ \E h \in polls, hasChanges \in BOOLEAN : PollOk(h, hasChanges)
  \/ \E h \in polls : PollErr(h)
  \/ \E h \in aborted : AbortedPollErr(h)
  \/ DelayFire
  \/ \E i \in 1..Len(pulls), page \in Pages : PullOk001(i, page)
  \/ \E i \in 1..Len(pulls) : PullErr001(i)
  \/ \E i \in 1..Len(commits), ok \in BOOLEAN : CommitReset001(i, ok)
  \/ \E i \in 1..Len(commits), ok \in BOOLEAN :
       \E k \in commits[i].pending : CommitChange001(i, k, ok)

SpecPerPath == Init /\ [][Next001]_vars

\* C2: once a batch has been dispatched to the commit pipelines of the paths
\* it touches, the engine issues no poll and no pull of its own (from a commit's
\* callback) while one of these pipelines has yet to call back.
C2_NoRequestBeforeAllCommitsDone ==
  ~ /\ ev.kind \in {"reset", "change"}
    /\ ev.polls + ev.pulls > 0
    /\ commits # <<>>

\* C24: when a complete batch with blankSlate is dispatched, a commit that
\* starts with resetDir(path) is started for every registered path, also for
\* the paths under which the batch has no entry.
C24_ResetEveryPath ==
  (ev.kind = "pullOk" /\ ev.batch # NoBatch /\ ev.batch.blankSlate)
    => \A p \in paths :
         \E i \in 1..Len(commits) :
           commits[i].path = p /\ commits[i].stage = "reset"

----------------------------------------------------------------------------
(* The commit of a batch on the local mirror: commitChanges, resetDir,      *)
(* commitChange, _replaceLocalWithFile and _replaceLocalWithFolder of       *)
(* src/unnamed/part_000.  The mirror is a tree of local paths; every        *)
(* filesystem or content call in flight is completed by a step of its own,  *)
(* which applies its effect and runs its callback.                          *)

MaxBatchLen == 2
MaxBatches == 2

\* the local paths the entries can touch
FsPaths == { Root, toLocalPath(PA), toLocalPath(PAB), toLocalPath(EF) }

\* entries of the delta feed: a removal (wasRemoved), a file (stat.isFile), a
\* folder (stat.isFolder), or none of these
CommitEntries ==
  { [path |-> p, kind |-> k] : p \in {PAB, EF}, k \in {"removed", "file", "folder"} }
    \cup { [path |-> EF, kind |-> "other"] }

CommitBatches ==
  [changes : SeqsUpTo(CommitEntries, MaxBatchLen), blankSlate : BOOLEAN]

\* the mirror after resetDir: the root directory and nothing in it
FreshTree == [q \in FsPaths |-> IF q = Root THEN "dir" ELSE "none"]

\* q is p or lies below p
IsUnder(q, p) ==
  \/ q = p
  \/ /\ Len(q) > Len(p)
     /\ SubSeq(q, 1, Len(p)) = p
     /\ q[Len(p) + 1] = "/"

\* the directories of the mirror above p
Above(p) == { q \in FsPaths : q # p /\ IsUnder(p, q) }

Result(ok, tree) == [ok |-> ok, tree |-> tree]

\* fs.remove(p): p and everything below it is gone; a missing p is no error
fsRemove(tree, p) ==
  Result(TRUE, [q \in FsPaths |-> IF IsUnder(q, p) THEN "none" ELSE tree[q]])

\* fs.mkdirs(p): p and the directories above it exist; a file in the way fails
fsMkdirs(tree, p) ==
  IF \E q \in Above(p) \cup {p} : tree[q] = "file"
    THEN Result(FALSE, tree)
    ELSE Result(TRUE, [q \in FsPaths |->
                         IF q \in Above(p) \cup {p} THEN "dir" ELSE tree[q]])

\* fs.outputFile(p, data): the directories above p are made and p is written;
\* a file above p or a directory at p fails
fsOutputFile(tree, p) ==
  IF (\E q \in Above(p) : tree[q] = "file") \/ tree[p] = "dir"
    THEN Result(FALSE, tree)
    ELSE Result(TRUE, [q \in FsPaths |->
                         IF q \in Above(p) THEN "dir"
                         ELSE IF q = p THEN "file" ELSE tree[q]])

\* fs.stat(p): the error code, or what is at p
fsStat(tree, p) ==
  IF \E q \in Above(p) : tree[q] = "file" THEN "ENOTDIR"
  ELSE IF tree[p] = "none" THEN "ENOENT"
  ELSE tree[p]

\* if(stat.isDirectory): isDirectory is a method of fs.Stats and is not
\* called, so the test is true of whatever stat found
statIsDirectory(found) == found \in {"dir", "file"}

NoOps == <<>>

\* commitChange(change, callback): the calls the entry starts
commitChange(change) ==
  IF change.kind = "removed"
    THEN [pc |-> "remove", rm |-> "-", rd |-> "-", calls |-> 0]
  ELSE IF change.kind = "file"
    THEN [pc |-> "parallel", rm |-> "run", rd |-> "run", calls |-> 0]
  ELSE IF change.kind = "folder"
    THEN [pc |-> "stat", rm |-> "-", rd |-> "-", calls |-> 0]
  ELSE [pc |-> "failed", rm |-> "-", rd |-> "-", calls |-> 0]

Did(op, entry, wrote, late) ==
  [op |-> op, entry |-> entry, wrote |-> wrote, late |-> late]

\* the state of the mirror before any commit
IdleDisk ==
  [tree |-> FreshTree, batches |-> <<>>, stage |-> "idle", ops |-> NoOps,
   cb |-> "none", bad |-> 0, resetDone |-> FALSE, prev |-> FreshTree,
   did |-> Did("none", 0, FALSE, FALSE)]

CurrentBatch(d) == d.batches[Len(d.batches)]

\* the callback async.each gives commitChange, for entry i
eachDone(d, i, err) ==
  LET d1 == [d EXCEPT !.ops[i].pc = IF err THEN "failed" ELSE "done",
                      !.ops[i].calls = @ + 1]
  IN  IF err
        THEN (IF d1.cb = "none" THEN [d1 EXCEPT !.cb = "err", !.bad = i] ELSE d1)
        ELSE IF d1.cb = "none" /\ \A k \in 1..Len(d1.ops) : d1.ops[k].pc = "done"
               THEN [d1 EXCEPT !.cb = "ok"]
               ELSE d1

RECURSIVE eachReport(_, _)
\* the entries commitChange answered before returning
eachReport(d, i) ==
  IF i > Len(d.ops) THEN d
  ELSE eachReport(IF d.ops[i].pc = "failed" THEN eachDone(d, i, TRUE) ELSE d, i + 1)

\* async.each(pulledChanges.changes, commitChange, next): commitChange is
\* called for every entry before any of them completes
asyncEach(d, pulledChanges) ==
  LET d1 == [d EXCEPT !.stage = "each",
                      !.ops = [i \in 1..Len(pulledChanges.changes) |->
                                 commitChange(pulledChanges.changes[i])]]
  IN  IF pulledChanges.changes = <<>>
        THEN [d1 EXCEPT !.cb = "ok"]
        ELSE eachReport(d1, 1)

\* (mutant) a blankSlate batch with no entry skips resetDir
commitSeries_NoResetWhenEmpty(d, pulledChanges) ==
  IF pulledChanges.blankSlate /\ pulledChanges.changes # <<>>
    THEN [d EXCEPT !.stage = "remove"]
    ELSE asyncEach(d, pulledChanges)

\* async.series([reset directory, make filesystem updates]) of commitChanges
commitSeries(d, pulledChanges) ==
  IF pulledChanges.blankSlate
    THEN [d EXCEPT !.stage = "remove"]
    ELSE asyncEach(d, pulledChanges)

\* (mutant) the error of a task is reported whether or not the entry has
\* called back
parallelDone_EveryError(d, i) ==
  IF "err" \in {d.ops[i].rm, d.ops[i].rd} THEN eachDone(d, i, TRUE)
  ELSE IF d.ops[i].rm = "ok" /\ d.ops[i].rd = "ok"
         THEN [d EXCEPT !.ops[i].pc = "output"]
  ELSE d

\* the callback async.parallel gives the two tasks of _replaceLocalWithFile
parallelDone(d, i) ==
  IF d.ops[i].pc # "parallel" THEN d
  ELSE IF "err" \in {d.ops[i].rm, d.ops[i].rd} THEN eachDone(d, i, TRUE)
  ELSE IF d.ops[i].rm = "ok" /\ d.ops[i].rd = "ok"
         THEN [d EXCEPT !.ops[i].pc = "output"]
  ELSE d

InitCommit ==
  /\ Constructed
  /\ disk = IdleDisk

\* commitChanges(pulledChanges, callback) on the mirror as the last commit
\* left it
CommitChangesCall(b) ==
  LET d1 == [disk EXCEPT !.batches = Append(@, b), !.ops = NoOps, !.cb = "none", !.bad = 0,
                         !.resetDone = FALSE, !.prev = disk.tree,
                         !.did = Did("commitChanges", 0, FALSE, FALSE)]
  IN  /\ disk # NoDisk
      /\ disk.stage = "idle" \/ disk.cb = "ok"
      /\ Len(disk.batches) < MaxBatches
      /\ disk' = commitSeries(d1, b)
      /\ UNCHANGED <<cursor, paths, watchingForChanges, pullingChanges, polls,
                     aborted, pulls, delays, locals, commits, queues, cache, ev>>

\* the step of the call op of entry i (0: resetDir): d is the mirror after it
DiskStep(d, op, i, wrote) ==
  /\ disk # NoDisk
  /\ disk' = [d EXCEPT !.did = Did(op, i, wrote, wrote /\ disk.cb = "err")]
  /\ UNCHANGED <<cursor, paths, watchingForChanges, pullingChanges, polls,
                 aborted, pulls, delays, locals, commits, queues, cache, ev>>

\* resetDir: fs.remove(dir) ends
ResetRemoveDone(ok) ==
  LET r == fsRemove(disk.tree, Root)
      d == IF ok THEN [disk EXCEPT !.tree = r.tree, !.stage = "mkdirs"]
           ELSE [disk EXCEPT !.stage = "each", !.cb = "err"]
  IN  /\ disk # NoDisk
      /\ disk.stage = "remove"
      /\ DiskStep(d, "resetRemove", 0, ok)

\* resetDir: fs.mkdirs(dir) ends, and async.series goes on
ResetMkdirsDone(ok) ==
  LET r == fsMkdirs(disk.tree, Root)
      good == ok /\ r.ok
      d == IF good
             THEN asyncEach([disk EXCEPT !.tree = r.tree, !.resetDone = TRUE],
                            CurrentBatch(disk))
             ELSE [disk EXCEPT !.stage = "each", !.cb = "err"]
  IN  /\ disk # NoDisk
      /\ disk.stage = "mkdirs"
      /\ DiskStep(d, "resetMkdirs", 0, good)

\* commitChange of a removed entry: fs.remove ends
RemoveDone(i, ok) ==
  LET r == fsRemove(disk.tree, toLocalPath(CurrentBatch(disk).changes[i].path))
      d == eachDone(IF ok THEN [disk EXCEPT !.tree = r.tree] ELSE disk, i, ~ok)
  IN  /\ disk # NoDisk
      /\ i \in 1..Len(disk.ops)
      /\ disk.ops[i].pc = "remove"
      /\ DiskStep(d, "remove", i, ok)

\* _replaceLocalWithFile: fs.remove(localPath) ends
LocalRemoveDone(i, ok) ==
  LET r == fsRemove(disk.tree, toLocalPath(CurrentBatch(disk).changes[i].path))
      d1 == IF ok THEN [disk EXCEPT !.tree = r.tree, !.ops[i].rm = "ok"]
            ELSE [disk EXCEPT !.ops[i].rm = "err"]
  IN  /\ disk # NoDisk
      /\ i \in 1..Len(disk.ops)
      /\ disk.ops[i].rm = "run"
      /\ DiskStep(parallelDone(d1, i), "localRemove", i, ok)

\* _replaceLocalWithFile: client.readFile ends
ReadFileDone(i, ok) ==
  LET d1 == [disk EXCEPT !.ops[i].rd = IF ok THEN "ok" ELSE "err"]
  IN  /\ disk # NoDisk
      /\ i \in 1..Len(disk.ops)
      /\ disk.ops[i].rd = "run"
      /\ DiskStep(parallelDone(d1, i), "readFile", i, FALSE)

\* _replaceLocalWithFile: fs.outputFile ends
OutputFileDone(i, ok) ==
  LET r == fsOutputFile(disk.tree, toLocalPath(CurrentBatch(disk).changes[i].path))
      good == ok /\ r.ok
      d == eachDone(IF good THEN [disk EXCEPT !.tree = r.tree] ELSE disk, i, ~good)
  IN  /\ disk # NoDisk
      /\ i \in 1..Len(disk.ops)
      /\ disk.ops[i].pc = "output"
      /\ DiskStep(d, "outputFile", i, good)

\* _replaceLocalWithFolder: fs.stat ends
StatDone(i, ok) ==
  LET found == fsStat(disk.tree, toLocalPath(CurrentBatch(disk).changes[i].path))
      d == IF ~ok \/ found = "ENOTDIR" THEN eachDone(disk, i, TRUE)
           ELSE IF found = "ENOENT" THEN [disk EXCEPT !.ops[i].pc = "mkdirs"]
           ELSE IF statIsDirectory(found) THEN eachDone(disk, i, FALSE)
           ELSE [disk EXCEPT !.ops[i].pc = "replace"]
  IN  /\ disk # NoDisk
      /\ i \in 1..Len(disk.ops)
      /\ disk.ops[i].pc = "stat"
      /\ DiskStep(d, "stat", i, FALSE)

\* _replaceLocalWithFolder: fs.mkdirs ends
MkdirsDone(i, ok) ==
  LET r == fsMkdirs(disk.tree, toLocalPath(CurrentBatch(disk).changes[i].path))
      good == ok /\ r.ok
      d == eachDone(IF good THEN [disk EXCEPT !.tree = r.tree] ELSE disk, i, ~good)
  IN  /\ disk # NoDisk
      /\ i \in 1..Len(disk.ops)
      /\ disk.ops[i].pc = "mkdirs"
      /\ DiskStep(d, "mkdirs", i, good)

NextCommit ==
  \/ \E b \in CommitBatches : CommitChangesCall(b)
  \/ \E ok \in BOOLEAN : ResetRemoveDone(ok)
  \/ \E ok \in BOOLEAN : ResetMkdirsDone(ok)
  \/ \E i \in 1..MaxBatchLen, ok \in BOOLEAN : RemoveDone(i, ok)
  \/ \E i \in 1..MaxBatchLen, ok \in BOOLEAN : LocalRemoveDone(i, ok)
  \/ \E i \in 1..MaxBatchLen, ok \in BOOLEAN : ReadFileDone(i, ok)
  \/ \E i \in 1..MaxBatchLen, ok \in BOOLEAN : OutputFileDone(i, ok)
  \/ \E i \in 1..MaxBatchLen, ok \in BOOLEAN : StatDone(i, ok)
  \/ \E i \in 1..MaxBatchLen, ok \in BOOLEAN : MkdirsDone(i, ok)

SpecCommit == InitCommit /\ [][NextCommit]_vars

----------------------------------------------------------------------------
(* Claims about the commit of a batch *)

\* C11: for a batch with blankSlate = true, no commitChange is started before
\* resetDir has removed and re-created the root, the root is empty when the
\* entries start, and the reset is done even when the batch has no entry.
C11_ResetBeforeEntries ==
  (disk.batches # <<>> /\ CurrentBatch(disk).blankSlate) =>
    /\ disk.ops # NoOps => disk.resetDone
    /\ disk.cb = "ok" => disk.resetDone
    /\ (disk.did.op = "resetMkdirs" /\ disk.did.wrote) => disk.tree = FreshTree

C11_Witness ==
  /\ Len(disk.batches) = 2
  /\ CurrentBatch(disk) = [changes |-> <<>>, blankSlate |-> TRUE]
  /\ disk.cb = "ok"
  /\ disk.resetDone
  /\ disk.prev # FreshTree
  /\ disk.tree = FreshTree

\* one entry applied on its own, each of its calls succeeding when it can:
\* remove, replace with a file, replace with a folder
applyEntry(r, change) ==
  LET p == toLocalPath(change.path)
  IN  IF ~r.ok THEN r
      ELSE IF change.kind = "removed" THEN fsRemove(r.tree, p)
      ELSE IF change.kind = "file" THEN fsOutputFile(fsRemove(r.tree, p).tree, p)
      ELSE IF change.kind = "folder"
        THEN (IF fsStat(r.tree, p) = "ENOENT" THEN fsMkdirs(r.tree, p)
              ELSE IF fsStat(r.tree, p) = "ENOTDIR" THEN Result(FALSE, r.tree)
              ELSE r)
      ELSE Result(FALSE, r.tree)

RECURSIVE applyEntries(_, _)
applyEntries(r, changes) ==
  IF changes = <<>> THEN r
  ELSE applyEntries(applyEntry(r, Head(changes)), Tail(changes))

RECURSIVE Replay(_)
\* every entry of every batch applied one at a time, in feed order, from a
\* freshly reset mirror
Replay(batches) ==
  IF batches = <<>> THEN Result(TRUE, FreshTree)
  ELSE LET b == batches[Len(batches)]
           before == Replay(SubSeq(batches, 1, Len(batches) - 1))
       IN  applyEntries(IF b.blankSlate THEN Result(before.ok, FreshTree) ELSE before,
                        b.changes)

\* C13: when the commits of a sequence of batches have all called back without
\* error, the mirror is the tree given by applying every entry one at a time
\* in feed order.
C13_Convergence ==
  (disk.cb = "ok" /\ Replay(disk.batches).ok)
    => disk.tree = Replay(disk.batches).tree

\* C14: a batch with blankSlate = false committed again, right after its
\* commit called back without error, leaves the mirror as the first commit
\* left it.
C14_Idempotence ==
  (/\ Len(disk.batches) = 2
   /\ disk.batches[2] = disk.batches[1]
   /\ ~disk.batches[1].blankSlate
   /\ disk.cb = "ok")
    => disk.tree = disk.prev

\* a call of the entry is in flight
HasCall(o) ==
  o.pc \in {"remove", "parallel", "output", "stat", "mkdirs"}
    \/ o.rm = "run" \/ o.rd = "run"

\* C19: the calls of an entry are not started before every call of the
\* entries before it in the batch has completed.
C19_EntriesInOrder ==
  \A i, j \in 1..Len(disk.ops) :
    (i < j /\ HasCall(disk.ops[i])) =>
      ~(HasCall(disk.ops[j]) \/ disk.ops[j].pc = "done")

\* C20: once an entry of the batch has failed (disk.bad), no call of another
\* entry of the batch changes the mirror.
C20_NoMutationAfterFailure ==
  ~(disk.did.late /\ disk.bad # 0 /\ disk.did.entry # disk.bad)

\* C21: when _replaceLocalWithFolder calls back without error (after fs.stat
\* or after fs.mkdirs), a directory is at the local path of the entry.
C21_FolderReplace ==
  \A i \in 1..Len(disk.ops) :
    (/\ disk.did.entry = i
     /\ disk.did.op \in {"stat", "mkdirs"}
     /\ disk.ops[i].pc = "done")
      => disk.tree[toLocalPath(CurrentBatch(disk).changes[i].path)] = "dir"

\* C22: fs.outputFile of a file entry is called only when its fs.remove and
\* its readFile have both succeeded; when one of them fails the entry has
\* called back with the error and writes nothing; every entry calls back at
\* most once, also when the other task of a failed entry completes later.
C22_FileReplace ==
  \A i \in 1..Len(disk.ops) :
    LET o == disk.ops[i]
    IN  /\ o.calls <= 1
        /\ o.calls = 1 <=> o.pc \in {"done", "failed"}
        /\ o.pc = "output" => (o.rm = "ok" /\ o.rd = "ok")
        /\ (disk.did.op = "outputFile" /\ disk.did.entry = i)
             => (o.rm = "ok" /\ o.rd = "ok")
        /\ "err" \in {o.rm, o.rd} => o.pc = "failed"

C22_Witness ==
  /\ Len(disk.ops) = 1
  /\ disk.ops[1].rd = "err"
  /\ disk.ops[1].rm = "ok"
  /\ disk.ops[1].pc = "failed"
  /\ disk.ops[1].calls = 1
  /\ disk.did.op = "localRemove"
  /\ disk.cb = "err"

----------------------------------------------------------------------------
(* The single-path engine, src/index.js.  The instance watches one path;    *)
(* sync() is called when no request, timer or commit of an earlier call is  *)
(* outstanding, so that one chain of callbacks is alive.  commits is the    *)
(* stack of the commitChanges calls in progress, the innermost last: the    *)
(* series of a batch pulls the next page, and commits it, before it applies *)
(* its own entries.                                                         *)

\* the constructor's this.path for the path given as 'a'
PathSingle ==
  LET path == <<"a">>
  IN  IF path[1] # "/" THEN <<"/">> \o path ELSE path

toLocalPathSingle(path) ==
  IF path[1] = "/" THEN Root \o path ELSE Root \o <<"/">> \o path

MapLocalSingle(changes) ==
  [i \in 1..Len(changes) |-> toLocalPathSingle(changes[i].path)]

\* pulledChanges.changes.filter(...) on this.path
RECURSIVE FilterSingle(_)
FilterSingle(changes) ==
  IF changes = <<>> THEN <<>>
  ELSE (IF SubSeq(Head(changes).path, 1,
                  IF Len(PathSingle) < Len(Head(changes).path)
                    THEN Len(PathSingle) ELSE Len(Head(changes).path)) = PathSingle
          THEN <<Head(changes)>> ELSE <<>>)
         \o FilterSingle(Tail(changes))

\* client.pullChanges(this.cursor, ...): the request carries the cursor sent
pullChangesSingle(s) ==
  [s EXCEPT !.pulls = Append(@, s.cursor), !.ev.pulls = @ + 1]

watchForChangesSingle(s) ==
  IF s.cursor = Null THEN pullChangesSingle(s)
  ELSE IF s.watchingForChanges # 0
    THEN [s EXCEPT !.ev.dropped = @ + 1]
    ELSE LET h == FreshPoll(s)
         IN  [s EXCEPT !.watchingForChanges = h,
                       !.polls = @ \cup {h},
                       !.ev.polls = @ + 1]

\* the callback sync() gives watchForChanges: onError, or onChange and sync()
syncCallback(s, err, changesMade) ==
  IF err THEN [s EXCEPT !.ev.errs[PathSingle] = @ + 1]
  ELSE watchForChangesSingle(
         [s EXCEPT !.ev.changed = {PathSingle},
                   !.ev.arg = MapLocalSingle(changesMade.changes)])

Top(s) == s.commits[Len(s.commits)]
Pop(s) == [s EXCEPT !.commits = SubSeq(@, 1, Len(@) - 1)]

RECURSIVE seriesCallback(_, _, _)
RECURSIVE seriesEach(_)

\* the final callback of async.series in commitChanges: the callback of the
\* outermost commitChanges is sync()'s, that of an inner one is the `next` of
\* the series that pulled again
seriesCallback(s, err, pulledChanges) ==
  IF s.commits = <<>> THEN syncCallback(s, err, pulledChanges)
  ELSE IF err THEN seriesCallback(Pop(s), TRUE, Top(s).batch)
  ELSE seriesEach(s)

\* third task of the series: async.each(pulledChanges.changes, commitChange)
seriesEach(s) ==
  IF Top(s).batch.changes = <<>>
    THEN seriesCallback(Pop(s), FALSE, Top(s).batch)
    ELSE [s EXCEPT !.commits[Len(s.commits)].stage = "each",
                   !.commits[Len(s.commits)].pending = 1..Len(Top(s).batch.changes)]

\* second task of the series: pull again when the page asks for it
seriesPull(s) ==
  IF Top(s).batch.shouldPullAgain
    THEN pullChangesSingle([s EXCEPT !.commits[Len(s.commits)].stage = "pull"])
    ELSE seriesEach(s)

\* commitChanges(pulledChanges, callback); first task of the series: resetDir
\* for a blankSlate page
commitChangesSingle(s, pulledChanges) ==
  LET s1 == [s EXCEPT !.commits = Append(@, [batch |-> pulledChanges,
                                             stage |-> "reset",
                                             pending |-> {},
                                             failed |-> FALSE]),
                      !.ev.commit = pulledChanges]
  IN  IF pulledChanges.blankSlate THEN s1 ELSE seriesPull(s1)

\* the callback pullChanges gives client.pullChanges
pullChangesCallbackSingle(s, err, pulledChanges) ==
  IF err THEN syncCallback([s EXCEPT !.commits = <<>>], TRUE, pulledChanges)
  ELSE commitChangesSingle(
         [s EXCEPT !.cursor = pulledChanges.cursor],
         [changes |-> FilterSingle(pulledChanges.changes),
          blankSlate |-> pulledChanges.blankSlate,
          shouldPullAgain |-> pulledChanges.shouldPullAgain])

\* the callback watchForChanges gives client.pollForChanges
pollCallbackSingle(s, err, hasChanges) ==
  IF err THEN syncCallback(s, TRUE, <<>>)
  ELSE IF s.watchingForChanges = 0 THEN s
  ELSE IF ~hasChanges THEN [s EXCEPT !.delays = @ + 1]
  ELSE pullChangesSingle(s)

\* new DropboxSync(dropboxConfig, root, 'a')
InitSingle ==
  /\ cursor = Null
  /\ paths = {PathSingle}
  /\ watchingForChanges = 0
  /\ pullingChanges = FALSE
  /\ polls = {}
  /\ aborted = {}
  /\ pulls = <<>>
  /\ delays = 0
  /\ locals = {}
  /\ commits = <<>>
  /\ queues = [p \in WatchPaths |-> EmptyQueue]
  /\ cache = "this"
  /\ disk = NoDisk
  /\ ev = Ev("init")

IdleSingle == polls = {} /\ pulls = <<>> /\ delays = 0 /\ commits = <<>>

SyncSingle ==
  /\ IdleSingle
  /\ Set(watchForChangesSingle(Begin("sync")))

\* stopSync(callback): abort() on this.watchingForChanges throws when no handle
\* is held; an aborted request calls back with its transport error or not at
\* all (errLater)
StopSyncSingle(errLater) ==
  LET s1 == Begin("stopSync")
      h == s1.watchingForChanges
      s2 == IF h = 0 THEN [s1 EXCEPT !.ev.threw = TRUE]
            ELSE [s1 EXCEPT !.polls = @ \ {h},
                            !.aborted = IF h \in s1.polls /\ errLater
                                          THEN @ \cup {h} ELSE @,
                            !.watchingForChanges = 0,
                            !.ev.reset = TRUE]
  IN  /\ errLater => (watchingForChanges \in polls /\ Cardinality(aborted) < MaxInFlight)
      /\ Set(s2)

PollOkSingle(h, hasChanges) ==
  /\ h \in polls
  /\ Set(pollCallbackSingle([Begin("pollOk") EXCEPT !.polls = @ \ {h}],
                            FALSE, hasChanges))

PollErrSingle(h) ==
  /\ h \in polls
  /\ Set(pollCallbackSingle([Begin("pollErr") EXCEPT !.polls = @ \ {h}],
                            TRUE, FALSE))

AbortedPollErrSingle(h) ==
  /\ h \in aborted
  /\ Set(pollCallbackSingle([Begin("abortedPollErr") EXCEPT !.aborted = @ \ {h}],
                            TRUE, FALSE))

\* the delay() timer fires: self.watchForChanges(callback)
DelayFireSingle ==
  /\ delays > 0
  /\ Set(watchForChangesSingle([Begin("delay") EXCEPT !.delays = @ - 1]))

PullOkSingle(page) ==
  LET s1 == [Begin("pullOk") EXCEPT !.pulls = Tail(@),
                                    !.ev.got = page.cursor,
                                    !.ev.again = page.shouldPullAgain,
                                    !.ev.blank = page.blankSlate]
  IN  /\ pulls # <<>>
      /\ page.shouldPullAgain => Len(commits) + 1 < MaxPages
      /\ Set(pullChangesCallbackSingle(s1, FALSE, page))

PullErrSingle ==
  /\ pulls # <<>>
  /\ Set(pullChangesCallbackSingle([Begin("pullErr") EXCEPT !.pulls = Tail(@)],
                                   TRUE, <<>>))

\* resetDir of the innermost commit ends
CommitResetSingle(ok) ==
  LET s1 == [Begin("reset") EXCEPT !.ev.fs = ok]
  IN  /\ commits # <<>>
      /\ Top(St).stage = "reset"
      /\ Set(IF ok THEN seriesPull(s1)
             ELSE syncCallback([s1 EXCEPT !.commits = <<>>,
                                          !.ev.commitErr = TRUE], TRUE, <<>>))

\* the commitChange of entry k of the innermost commit ends.  async.each calls
\* the final callback at the first error, or when every commitChange has
\* succeeded; the calls still running after an error run to their end.
CommitChangeSingle(k, ok) ==
  LET rec == Top(St)
      left == rec.pending \ {k}
      s1 == [Begin("change") EXCEPT !.ev.fs = ok]
      s2 == IF ~ok /\ ~rec.failed
              THEN syncCallback(
                     [s1 EXCEPT !.commits =
                                  IF left = {} THEN <<>>
                                  ELSE << [rec EXCEPT !.pending = left,
                                                       !.failed = TRUE] >>,
                                !.ev.commitErr = TRUE], TRUE, <<>>)
            ELSE IF left = {}
              THEN IF rec.failed THEN Pop(s1)
                   ELSE seriesCallback(Pop(s1), FALSE, rec.batch)
            ELSE [s1 EXCEPT !.commits[Len(commits)].pending = left]
  IN  /\ commits # <<>>
      /\ rec.stage = "each"
      /\ k \in rec.pending
      /\ Set(s2)

\* the commitChange calls of the innermost commit still running
PendingSingle == IF commits = <<>> THEN {} ELSE Top(St).pending

\* what the remote service, the timers and the filesystem do
StepSingle ==
  \/ \E h \in polls, hasChanges \in BOOLEAN : PollOkSingle(h, hasChanges)
  \/ \E h \in polls : PollErrSingle(h)
  \/ \E h \in aborted : AbortedPollErrSingle(h)
  \/ DelayFireSingle
  \/ \E page \in Pages : PullOkSingle(page)
  \/ PullErrSingle
  \/ \E ok \in BOOLEAN : CommitResetSingle(ok)
  \/ \E ok \in BOOLEAN : \E k \in PendingSingle : CommitChangeSingle(k, ok)

NextSingle ==
  \/ SyncSingle
  \/ \E errLater \in BOOLEAN : StopSyncSingle(errLater)
  \/ StepSingle

\* every request, timer and filesystem call in flight ends at some time
SpecSingle == InitSingle /\ [][NextSingle]_vars /\ WF_vars(StepSingle)

----------------------------------------------------------------------------
(* Claims about the single-path engine *)

\* the loop goes on: a poll is issued, or the loop was ended by an error
\* given to onError or by stopSync
Rearmed ==
  \/ ev.polls > 0
  \/ \E p \in WatchPaths : ev.errs[p] > 0
  \/ ev.kind = "stopSync"

\* C27: after a batch has been committed and onChange invoked, and after the
\* retry delay of a poll without changes has fired, a new poll is issued at
\* some time, unless the loop is ended by an error or by stopSync.
C27_LoopNeverStalls ==
  /\ (ev.changed # {}) ~> Rearmed
  /\ (ev.kind = "delay") ~> Rearmed

====
